---- MODULE Spec2Model ----
(***************************************************************************)
(* A model of the cutechess game conductor (ChessGame) and match           *)
(* controller (EngineMatch).  The two engines are the environment: they    *)
(* become ready or busy, announce moves and forfeit at any time.           *)
(***************************************************************************)
EXTENDS Integers, Sequences, FiniteSets, TLC

\* ------------------------------------------------------------------ bounds
MaxGames == 2        \* largest m_gameCount explored
MaxPlies == 2        \* longest move list of one game
MaxBookDepth == 2    \* largest m_bookDepth explored
MaxUnchecked == 1    \* moves one game accepts past a Q_ASSERT that does not hold

\* --------------------------------------------------------------- constants
Engines == {0, 1}                      \* indices into m_engines
NoPlayer == 2                          \* the null ChessPlayer pointer
Sides == {"White", "Black"}
Opposite(side) == IF side = "White" THEN "Black" ELSE "White"

\* abstract moves, named after what they do on the board: two quiet moves
\* ("rep" returns to an earlier position), a mating move, a stalemating
\* move and a move that is not legal
Moves == {"a", "rep", "mate", "stale", "bad"}
\* the moves the players announce ("rep" acts on the game as "a" does)
PlayedMoves == Moves \ {"rep"}
\* a comment is the text made from the mover's evaluation (empty or not), or
\* the literal "book"
Comments == {"eval", "book"}
Fens == {"startpos", "custom"}

\* Chess::Result
NoneResult == [type |-> "None", winner |-> "NoSide"]
ErrorResult == [type |-> "ResultError", winner |-> "NoSide"]
\* the results the players forfeit with, one of each kind the match tells
\* apart: a win of either side, a disconnection, a draw, no result, an error
ForfeitResults ==
    {[type |-> "Timeout", winner |-> "White"],
     [type |-> "StalledConnection", winner |-> "Black"]}
    \cup {[type |-> "Disconnection", winner |-> "White"],
          [type |-> "Agreement", winner |-> "NoSide"],
          [type |-> "NoResult", winner |-> "NoSide"],
          ErrorResult}

isNone(r) == r.type = "None"
isDraw(r) == r.winner = "NoSide" /\ r.type \notin {"None", "NoResult", "ResultError"}

\* ------------------------------------------------------------------- board
\* Chess::Board as the conductor uses it: side to move, plies made, result
NewBoard(side) == [side |-> side, ply |-> 0, res |-> NoneResult]
SetBoard(fen) == [side |-> "White", ply |-> 0, res |-> NoneResult]
isLegalMove(b, mv) == b.side \in Sides /\ isNone(b.res) /\ mv # "bad"
isRepeatMove(b, mv) == mv = "rep"
BoardResultAfter(b, mv) ==
    IF ~isLegalMove(b, mv) THEN b.res
    ELSE IF mv = "mate" THEN [type |-> "Win", winner |-> b.side]
    ELSE IF mv = "stale" THEN [type |-> "Draw", winner |-> "NoSide"]
    ELSE NoneResult
makeMove(b, mv) ==
    [side |-> Opposite(b.side), ply |-> b.ply + 1, res |-> BoardResultAfter(b, mv)]

\* ------------------------------------------------------------------- state
VARIABLES
    assertsEnabled,   \* the build: Q_ASSERT aborts (debug) or is compiled out
    supportsVariant,  \* both players' supportsVariant(variant)
    crashed,          \* a Q_ASSERT has aborted the program
    ready,            \* ChessPlayer::isReady() of each engine
    gameAlive,        \* a ChessGame object exists
    m_player,         \* ChessGame::m_player
    m_gameInProgress,
    m_result,
    m_moves,
    m_comments,
    m_fen,            \* the game's starting FEN ("" when unset)
    m_board,
    readyConn,        \* connections player.ready() -> syncPlayers(), per engine
    startConn,        \* connections playersReady() -> start()
    endConn,          \* queued connections playersReady() -> gameEnded()
    gameEndedQueued,  \* gameEnded() events waiting in the event loop
    goPending,        \* go() issued to the player, no move accepted from it since
    known,            \* moves of this game each player made or was told
    endCalls,         \* results delivered to each player by endGame(result)
    goCalls,          \* go() calls issued to each player in this game
    span,             \* the waiting span opened last: "none", "start", "end"
    spanWait,         \* players the open span found not ready (0 once it emitted)
    spanEmits,        \* playersReady() emissions since the span was opened
    unchecked,        \* moves this game accepted past a Q_ASSERT that did not hold
    m_gameCount,
    m_currentGame,
    m_drawCount,
    wins,             \* EngineData::wins
    m_white,
    m_black,
    match_fen,        \* EngineMatch::m_fen
    m_openingMoves,
    m_repeatOpening,
    m_book,           \* a book is loaded
    m_bookDepth,
    pgnInputOpen,     \* m_pgnInput.isOpen()
    m_pgnGamesRead,
    m_pgnOutput,      \* a PGN output file is configured
    pgnRecords,       \* game records appended to the PGN output
    startScheduled,   \* calls of EngineMatch::start() due (main's, the timer's)
    finished,         \* finished() was emitted
    gamesStarted,     \* games created so far
    unscored,         \* handled games that scored neither a win nor a draw
    aborted,          \* a handled game ended by ResultError or disconnection
    seedFen,          \* starting position the last created game was seeded with
    seedMoves,        \* forced moves the last created game was seeded with
    \* GameAdjudicator
    m_drawMoveNum,
    m_drawMoveCount,
    m_drawScore,
    m_drawScoreCount,
    m_resignMoveCount,
    m_resignScore,
    m_resignScoreCount,
    m_tbEnabled,
    adj_result,       \* GameAdjudicator::m_result
    plyCount,         \* plies on the board the adjudicator is shown
    evalRun,          \* latest evaluations in a row, all non-empty and within the draw score
    evalRunSinceReset, \* the same, counted from the last resetDrawMoveCount()
    lastEmpty,        \* the latest evaluation was empty (depth <= 0)
    \* PgnGame
    m_tags,           \* tag name -> value, Absent for a tag the map does not hold
    pgn_moves,        \* PgnGame::m_moves: the MoveData of the game
    m_startingSide,
    m_eco,            \* the node of the opening tree the moves have reached
    written,          \* the game as it stands has been written
    readOk            \* what the read() that made the game returned, or "none"

gameVars == <<ready, gameAlive, m_player, m_gameInProgress, m_result, m_moves,
              m_comments, m_fen, m_board, readyConn, startConn, endConn,
              gameEndedQueued, goPending, known, endCalls, goCalls, span,
              spanWait, spanEmits, unchecked, crashed>>
matchVars == <<m_currentGame, m_drawCount, wins, m_white, m_black, match_fen,
               m_openingMoves, m_pgnGamesRead, pgnRecords, startScheduled,
               finished, gamesStarted, unscored, aborted, seedFen, seedMoves>>
configVars == <<assertsEnabled, supportsVariant, m_gameCount, m_repeatOpening, m_book,
                m_bookDepth, pgnInputOpen, m_pgnOutput>>
adjVars == <<m_drawMoveNum, m_drawMoveCount, m_drawScore, m_drawScoreCount,
             m_resignMoveCount, m_resignScore, m_resignScoreCount, m_tbEnabled,
             adj_result, plyCount, evalRun, evalRunSinceReset, lastEmpty>>
pgnVars == <<m_tags, pgn_moves, m_startingSide, m_eco, written, readOk>>
vars == <<gameVars, matchVars, configVars, adjVars, pgnVars>>

\* the part of the state the conductor's handlers read and write
World ==
    [ready |-> ready, gameAlive |-> gameAlive, m_player |-> m_player,
     m_gameInProgress |-> m_gameInProgress, m_result |-> m_result,
     m_moves |-> m_moves, m_comments |-> m_comments, m_fen |-> m_fen,
     m_board |-> m_board, readyConn |-> readyConn, startConn |-> startConn,
     endConn |-> endConn, gameEndedQueued |-> gameEndedQueued,
     goPending |-> goPending, known |-> known, endCalls |-> endCalls,
     goCalls |-> goCalls, span |-> span, spanWait |-> spanWait,
     spanEmits |-> spanEmits,
     unchecked |-> unchecked,
     crashed |-> crashed]

Commit(w) ==
    /\ ready' = w.ready
    /\ gameAlive' = w.gameAlive
    /\ m_player' = w.m_player
    /\ m_gameInProgress' = w.m_gameInProgress
    /\ m_result' = w.m_result
    /\ m_moves' = w.m_moves
    /\ m_comments' = w.m_comments
    /\ m_fen' = w.m_fen
    /\ m_board' = w.m_board
    /\ readyConn' = w.readyConn
    /\ startConn' = w.startConn
    /\ endConn' = w.endConn
    /\ gameEndedQueued' = w.gameEndedQueued
    /\ goPending' = w.goPending
    /\ known' = w.known
    /\ endCalls' = w.endCalls
    /\ goCalls' = w.goCalls
    /\ span' = w.span
    /\ spanWait' = w.spanWait
    /\ spanEmits' = w.spanEmits
    /\ unchecked' = w.unchecked
    /\ crashed' = w.crashed

\* a failed Q_ASSERT in a build that keeps assertions
Abort(w) == [w EXCEPT !.crashed = TRUE]

\* ------------------------------------------------- calls on a ChessPlayer
\* A call through a null player pointer ends the program.
PlayerGo(w, e) ==
    IF e \notin Engines THEN Abort(w)
    ELSE [w EXCEPT !.goPending[e] = TRUE, !.goCalls[e] = @ + 1]
\* makeMove(move) and makeBookMove(move): the player learns one more move
PlayerMakeMove(w, e) ==
    IF e \notin Engines THEN Abort(w)
    ELSE [w EXCEPT !.known[e] = @ + 1]
\* endGame(result): the player stops thinking
PlayerEndGame(w, e) ==
    [w EXCEPT !.endCalls[e] = Append(@, w.m_result),
              !.goPending[e] = FALSE]
PlayerNewGame(w, e) ==
    [w EXCEPT !.goPending[e] = FALSE, !.known[e] = 0]

\* ------------------------------------------------------------- ChessGame
playerToMove(w) ==
    IF w.m_board.side \notin Sides THEN NoPlayer ELSE w.m_player[w.m_board.side]
playerToWait(w) ==
    IF w.m_board.side \notin Sides THEN NoPlayer
    ELSE w.m_player[Opposite(w.m_board.side)]

arePlayersReady(w) ==
    w.ready[w.m_player["White"]] /\ w.ready[w.m_player["Black"]]

StartingFen(fen) == IF fen = "" THEN "startpos" ELSE fen
setBoard(w) ==
    LET fen == StartingFen(w.m_fen)
    IN [w EXCEPT !.m_fen = fen, !.m_board = SetBoard(fen)]

setFenString(w, fen) ==
    [w EXCEPT !.m_fen = fen, !.m_board = SetBoard(fen)]

setOpeningMoves(w, moves) ==
    [w EXCEPT !.m_moves = moves]

RECURSIVE BookLoop(_, _, _)
BookLoop(w, line, n) ==
    IF n = 0 \/ line = <<>> THEN w
    ELSE LET move == Head(line)
         IN IF ~isLegalMove(w.m_board, move) \/ isRepeatMove(w.m_board, move)
            THEN w
            ELSE BookLoop([w EXCEPT !.m_moves = Append(@, move),
                                    !.m_board = makeMove(@, move)],
                          Tail(line), n - 1)

\* line: the moves the book yields at the successive probes (<<>>: none)
setOpeningBook(w, line, maxMoves) ==
    BookLoop([setBoard(w) EXCEPT !.m_moves = <<>>], line, maxMoves)

RECURSIVE PlayForced(_, _)
PlayForced(w, moves) ==
    IF moves = <<>> THEN w
    ELSE LET move == Head(moves)
         IN IF assertsEnabled /\ ~isLegalMove(w.m_board, move) THEN Abort(w)
            ELSE LET w1 == PlayerMakeMove(w, playerToMove(w))
                     w2 == IF w1.crashed THEN w1
                           ELSE PlayerMakeMove(w1, playerToWait(w))
                 IN IF w2.crashed THEN w2
                    ELSE PlayForced([w2 EXCEPT !.m_board = makeMove(@, move),
                                               !.m_comments = Append(@, "book")],
                                    Tail(moves))

RECURSIVE ChessGame_start(_)
RECURSIVE emitPlayersReady(_)
RECURSIVE syncPlayers(_, _, _)
RECURSIVE endGame(_, _)

\* emit playersReady(): the slots connected when the emission begins run
emitPlayersReady(w) ==
    LET sc == w.startConn
        ec == w.endConn
        w1 == [w EXCEPT !.spanEmits = @ + 1, !.spanWait = 0]
        w2 == IF sc > 0 THEN ChessGame_start(w1) ELSE w1
    IN IF w2.crashed THEN w2
       ELSE [w2 EXCEPT !.gameEndedQueued = @ + ec]

\* syncPlayers() that emits on any ready() without asking the other player
syncPlayers_NoReadyCheck(w, sender, ignoreSender) ==
    LET w0 == IF ignoreSender /\ sender # NoPlayer
              THEN [w EXCEPT !.readyConn[sender] = 0]
              ELSE w
        snd == IF ignoreSender THEN NoPlayer ELSE sender
    IN IF snd = NoPlayer
       THEN LET notReady == {w0.m_player[s] : s \in Sides} \ {e \in Engines : w0.ready[e]}
                w1 == [w0 EXCEPT !.readyConn =
                          [e \in Engines |-> IF e \in notReady THEN @[e] + 1 ELSE @[e]],
                                 !.spanWait = Cardinality(notReady)]
            IN IF notReady # {} THEN w1 ELSE emitPlayersReady(w1)
       ELSE emitPlayersReady([w0 EXCEPT !.readyConn[snd] = 0])

syncPlayers(w, sender, ignoreSender) ==
    LET w0 == IF ignoreSender /\ sender # NoPlayer
              THEN [w EXCEPT !.readyConn[sender] = 0]
              ELSE w
        snd == IF ignoreSender THEN NoPlayer ELSE sender
    IN IF snd = NoPlayer
       THEN LET notReady == {w0.m_player[s] : s \in Sides} \ {e \in Engines : w0.ready[e]}
                w1 == [w0 EXCEPT !.readyConn =
                          [e \in Engines |-> IF e \in notReady THEN @[e] + 1 ELSE @[e]],
                                 !.spanWait = Cardinality(notReady)]
            IN IF notReady # {} THEN w1 ELSE emitPlayersReady(w1)
       ELSE LET w1 == [w0 EXCEPT !.readyConn[snd] = 0]
            IN IF ~arePlayersReady(w1) THEN w1 ELSE emitPlayersReady(w1)

\* endGame() that announces the end without the readiness sync
endGame_NoSync(w, sender) ==
    IF ~w.m_gameInProgress THEN w
    ELSE LET w1 == [w EXCEPT !.m_gameInProgress = FALSE]
             w2 == PlayerEndGame(w1, w1.m_player["White"])
             w3 == PlayerEndGame(w2, w2.m_player["Black"])
             w4 == [w3 EXCEPT !.endConn = @ + 1, !.span = "end", !.spanEmits = 0]
         IN emitPlayersReady(w4)

\* endGame() that does not ask whether the game is still in progress
endGame_Repeated(w, sender) ==
    LET w1 == [w EXCEPT !.m_gameInProgress = FALSE]
        w2 == PlayerEndGame(w1, w1.m_player["White"])
        w3 == PlayerEndGame(w2, w2.m_player["Black"])
        w4 == [w3 EXCEPT !.endConn = @ + 1, !.span = "end", !.spanEmits = 0]
    IN syncPlayers(w4, sender, TRUE)

endGame(w, sender) ==
    IF ~w.m_gameInProgress THEN w
    ELSE LET w1 == [w EXCEPT !.m_gameInProgress = FALSE]
             w2 == PlayerEndGame(w1, w1.m_player["White"])
             w3 == PlayerEndGame(w2, w2.m_player["Black"])
             w4 == [w3 EXCEPT !.endConn = @ + 1, !.span = "end", !.spanEmits = 0]
         IN syncPlayers(w4, sender, TRUE)

\* onMoveMade() that asks for the next move before the board has the move
onMoveMade_GoBeforeApply(w, sender, move) ==
    IF assertsEnabled /\ ~w.m_gameInProgress THEN Abort(w)
    ELSE IF assertsEnabled /\ ~isLegalMove(w.m_board, move) THEN Abort(w)
    ELSE IF sender # playerToMove(w) THEN w
    ELSE LET w1 == [w EXCEPT !.m_comments = Append(@, "eval"),
                             !.m_moves = Append(@, move),
                             !.goPending[sender] = FALSE,
                             !.known[sender] = @ + 1]
             w2 == PlayerMakeMove(w1, playerToWait(w1))
             res == makeMove(w2.m_board, move).res
             w3 == IF isNone(res) THEN PlayerGo(w2, playerToMove(w2)) ELSE w2
             w4 == [w3 EXCEPT !.m_board = makeMove(@, move), !.m_result = res]
         IN IF isNone(res) THEN w4 ELSE endGame(w4, sender)

onMoveMade(w, sender, move) ==
    IF assertsEnabled /\ ~w.m_gameInProgress THEN Abort(w)
    ELSE IF assertsEnabled /\ ~isLegalMove(w.m_board, move) THEN Abort(w)
    ELSE IF sender # playerToMove(w) THEN w
    ELSE LET w1 == [w EXCEPT !.m_comments = Append(@, "eval"),
                             !.m_moves = Append(@, move),
                             !.goPending[sender] = FALSE,
                             !.known[sender] = @ + 1]
             w2 == PlayerMakeMove(w1, playerToWait(w1))
             w3 == [w2 EXCEPT !.m_board = makeMove(@, move)]
             w4 == [w3 EXCEPT !.m_result = w3.m_board.res]
         IN IF isNone(w4.m_result) THEN PlayerGo(w4, playerToMove(w4))
            ELSE endGame(w4, sender)

onForfeit(w, sender, result) ==
    IF ~w.m_gameInProgress THEN w
    ELSE endGame([w EXCEPT !.m_result = result], sender)

ChessGame_start(w) ==
    LET w1 == [w EXCEPT !.m_result = NoneResult]
    IN IF ~arePlayersReady(w1)
       THEN syncPlayers([w1 EXCEPT !.startConn = @ + 1, !.span = "start",
                                   !.spanEmits = 0],
                        NoPlayer, TRUE)
       ELSE LET w2 == [w1 EXCEPT !.startConn = 0, !.m_gameInProgress = TRUE]
            IN IF ~supportsVariant
               THEN endGame([w2 EXCEPT !.m_result = ErrorResult], NoPlayer)
               ELSE LET w3 == setBoard(w2)
                        w4 == PlayerNewGame(w3, w3.m_player["White"])
                        w5 == PlayerNewGame(w4, w4.m_player["Black"])
                        w6 == PlayForced(w5, w5.m_moves)
                    IN IF w6.crashed THEN w6
                       ELSE PlayerGo(w6, playerToMove(w6))

\* ----------------------------------------------------------- EngineMatch
\* new ChessGame(m_variant, this) followed by the two setPlayer calls; side
\* is what the freshly constructed board reports as side to move
NewGame(w, white, black, side) ==
    [w EXCEPT !.gameAlive = TRUE,
              !.m_player = [s \in Sides |-> IF s = "White" THEN white ELSE black],
              !.m_gameInProgress = FALSE,
              !.m_result = NoneResult,
              !.m_moves = <<>>,
              !.m_comments = <<>>,
              !.m_fen = "",
              !.m_board = NewBoard(side),
              !.readyConn = [e \in Engines |-> 0],
              !.startConn = 0,
              !.endConn = 0,
              !.goPending = [e \in Engines |-> FALSE],
              !.known = [e \in Engines |-> 0],
              !.endCalls = [e \in Engines |-> <<>>],
              !.goCalls = [e \in Engines |-> 0],
              !.span = "none",
              !.spanWait = 0,
              !.spanEmits = 0,
              !.unchecked = 0]

\* delete game: the object and all its connections are gone
DeleteGame(w) ==
    [w EXCEPT !.gameAlive = FALSE,
              !.m_player = [s \in Sides |-> NoPlayer],
              !.m_gameInProgress = FALSE,
              !.m_result = NoneResult,
              !.m_moves = <<>>,
              !.m_comments = <<>>,
              !.m_fen = "",
              !.m_board = NewBoard("NoSide"),
              !.readyConn = [e \in Engines |-> 0],
              !.startConn = 0,
              !.endConn = 0,
              !.goPending = [e \in Engines |-> FALSE],
              !.known = [e \in Engines |-> 0],
              !.endCalls = [e \in Engines |-> <<>>],
              !.goCalls = [e \in Engines |-> 0],
              !.span = "none",
              !.spanWait = 0,
              !.spanEmits = 0,
              !.unchecked = 0]

Prefix(seq, n) == SubSeq(seq, 1, IF n < Len(seq) THEN n ELSE Len(seq))
Lines(n) == UNION {[1..k -> Moves] : k \in 0..n}
QuietLines(n) == UNION {[1..k -> {"a", "rep"}] : k \in 0..n}

\* game->load(m_pgnInput, true, m_bookDepth): at most maxMoves moves of the
\* next game of the bank and its starting position become the game's seed
load(w, fen, line, maxMoves) ==
    [w EXCEPT !.m_fen = fen, !.m_moves = Prefix(line, maxMoves)]

\* a color assignment that never alternates
WhiteOf_Fixed(g) == 0
\* the color assignment of EngineMatch::start()
WhiteOf(g) == IF g % 2 = 0 THEN 0 ELSE 1
BlackOf(g) == IF g % 2 = 0 THEN 1 ELSE 0

\* EngineMatch::start(), up to the call of game->start().  seed: what the
\* opening source yields for this game: the book's moves at the successive
\* probes, or the PGN bank's next game (ok, retryOk: whether the first read and
\* the read after a rewind succeed)
SeedGame(w, seed) ==
    IF match_fen # "" \/ m_openingMoves # <<>>
    THEN LET w1 == IF match_fen # "" THEN setFenString(w, match_fen) ELSE w
         IN IF m_openingMoves # <<>> THEN setOpeningMoves(w1, m_openingMoves) ELSE w1
    ELSE IF m_book THEN setOpeningBook(w, seed.line, m_bookDepth)
    ELSE IF pgnInputOpen
    THEN IF seed.ok THEN load(w, seed.fen, seed.line, m_bookDepth)
         ELSE IF m_pgnGamesRead > 0
         THEN IF seed.retryOk THEN load(w, seed.fen, seed.line, m_bookDepth)
              ELSE IF assertsEnabled THEN Abort(w) ELSE w
         ELSE w
    ELSE w

PgnGamesReadAfter(seed) ==
    IF match_fen # "" \/ m_openingMoves # <<>> \/ m_book \/ ~pgnInputOpen
    THEN m_pgnGamesRead
    ELSE IF seed.ok \/ m_pgnGamesRead > 0 THEN m_pgnGamesRead + 1
    ELSE m_pgnGamesRead

Seeds ==
    IF match_fen # "" \/ m_openingMoves # <<>> \/ (~m_book /\ ~pgnInputOpen)
    THEN {[line |-> <<>>, fen |-> "", ok |-> TRUE, retryOk |-> TRUE]}
    ELSE IF m_book
    THEN [line : Lines(MaxPlies), fen : {""}, ok : {TRUE}, retryOk : {TRUE}]
    ELSE [line : QuietLines(MaxPlies), fen : {"", "custom"}, ok : BOOLEAN,
          retryOk : BOOLEAN]

\* ---------------------------------------------------------- GameAdjudicator
MaxEvals == 4
MoveNumbers == 0..2
MoveCounts == 0..2
DrawScores == {1}
ResignScores == {-1}
\* scores on either side of both thresholds
Scores == {-2, -1, 0, 2}
Depths == {0, 1}
qAbs(x) == IF x < 0 THEN -x ELSE x

AdjNone == [type |-> "None", winner |-> "NoSide", description |-> ""]
DrawRule == [type |-> "Adjudication", winner |-> "NoSide",
             description |-> "TCEC draw rule"]
WinRule(winner) == [type |-> "Adjudication", winner |-> winner,
                    description |-> "TCEC win rule"]
\* what board->tablebaseResult() may answer
TablebaseResults == {AdjNone, [type |-> "Win", winner |-> "White",
                               description |-> "tablebase"]}
\* the boards and evaluations addEval() is called with
AdjBoard(sideToMove, tablebaseResult) ==
    [sideToMove |-> sideToMove, plyCount |-> plyCount + 1,
     tablebaseResult |-> tablebaseResult]
AdjBoards == {AdjBoard(side, result) : side \in Sides, result \in TablebaseResults}
Evals == [depth : Depths, score : Scores]

\* GameAdjudicator::GameAdjudicator()
AdjInit ==
    /\ m_drawMoveNum = 0
    /\ m_drawMoveCount = 0
    /\ m_drawScore = 0
    /\ m_drawScoreCount = 0
    /\ m_resignMoveCount = 0
    /\ m_resignScore = 0
    /\ m_resignScoreCount = [s \in Sides |-> 0]
    /\ m_tbEnabled = FALSE
    /\ adj_result = AdjNone
    /\ plyCount = 0
    /\ evalRun = 0
    /\ evalRunSinceReset = 0
    /\ lastEmpty = FALSE

\* the adjudicator's fields
Adjudicator ==
    [m_drawMoveNum |-> m_drawMoveNum, m_drawMoveCount |-> m_drawMoveCount,
     m_drawScore |-> m_drawScore, m_drawScoreCount |-> m_drawScoreCount,
     m_resignMoveCount |-> m_resignMoveCount, m_resignScore |-> m_resignScore,
     m_resignScoreCount |-> m_resignScoreCount, m_tbEnabled |-> m_tbEnabled,
     m_result |-> adj_result]

\* a forced move that leaves the draw counter running
ForcedMove_KeepsDrawCount(a, side) ==
    [a EXCEPT !.m_resignScoreCount[side] = 0]

\* addEval(): moves forced by the user
ForcedMove(a, side) ==
    [a EXCEPT !.m_drawScoreCount = 0, !.m_resignScoreCount[side] = 0]

\* a draw counter that compares the signed score
DrawCount_Signed(a, eval) ==
    IF eval.score <= a.m_drawScore THEN a.m_drawScoreCount + 1 ELSE 0

\* addEval(): the draw counter after the evaluation
DrawCount(a, eval) ==
    IF qAbs(eval.score) <= a.m_drawScore THEN a.m_drawScoreCount + 1 ELSE 0

\* addEval(): the draw rule applies
DrawDue(a, board) ==
    /\ board.plyCount \div 2 >= a.m_drawMoveNum
    /\ a.m_drawScoreCount >= a.m_drawMoveCount * 2

\* resign adjudication that never resets the counter
ResignAdjudication_NoReset(a, side, eval) ==
    LET count == IF eval.score <= a.m_resignScore
                 THEN a.m_resignScoreCount[side] + 1
                 ELSE a.m_resignScoreCount[side]
        a1 == [a EXCEPT !.m_resignScoreCount[side] = count]
    IN IF count >= a.m_resignMoveCount
       THEN [a1 EXCEPT !.m_result = WinRule(Opposite(side))]
       ELSE a1

\* addEval(): resign adjudication
ResignAdjudication(a, side, eval) ==
    LET count == IF eval.score <= a.m_resignScore
                 THEN a.m_resignScoreCount[side] + 1 ELSE 0
        a1 == [a EXCEPT !.m_resignScoreCount[side] = count]
    IN IF count >= a.m_resignMoveCount
       THEN [a1 EXCEPT !.m_result = WinRule(Opposite(side))]
       ELSE a1

addEval(a, board, eval) ==
    LET side == Opposite(board.sideToMove)
        a1 == IF a.m_tbEnabled THEN [a EXCEPT !.m_result = board.tablebaseResult]
              ELSE a
    IN IF a.m_tbEnabled /\ ~isNone(a1.m_result) THEN a1
       ELSE IF eval.depth <= 0 THEN ForcedMove(a1, side)
       ELSE LET a2 == IF a1.m_drawMoveNum > 0
                      THEN [a1 EXCEPT !.m_drawScoreCount = DrawCount(a1, eval)]
                      ELSE a1
            IN IF a2.m_drawMoveNum > 0 /\ DrawDue(a2, board)
               THEN [a2 EXCEPT !.m_result = DrawRule]
               ELSE IF a2.m_resignMoveCount > 0
               THEN ResignAdjudication(a2, side, eval)
               ELSE a2

AdjCommit(a) ==
    /\ m_drawMoveNum' = a.m_drawMoveNum
    /\ m_drawMoveCount' = a.m_drawMoveCount
    /\ m_drawScore' = a.m_drawScore
    /\ m_drawScoreCount' = a.m_drawScoreCount
    /\ m_resignMoveCount' = a.m_resignMoveCount
    /\ m_resignScore' = a.m_resignScore
    /\ m_resignScoreCount' = a.m_resignScoreCount
    /\ m_tbEnabled' = a.m_tbEnabled
    /\ adj_result' = a.m_result

\* whether the evaluation continues a run of draw-score evaluations
InDrawRun(eval) == eval.depth > 0 /\ qAbs(eval.score) <= m_drawScore

\* a move was made and the game hands its evaluation to the adjudicator
AddEval(board, eval) ==
    /\ plyCount < MaxEvals
    /\ board.plyCount = plyCount + 1
    /\ AdjCommit(addEval(Adjudicator, board, eval))
    /\ plyCount' = plyCount + 1
    /\ evalRun' = IF InDrawRun(eval) THEN evalRun + 1 ELSE 0
    /\ evalRunSinceReset' = IF InDrawRun(eval) THEN evalRunSinceReset + 1 ELSE 0
    /\ lastEmpty' = (eval.depth <= 0)
    /\ UNCHANGED <<gameVars, matchVars, configVars, pgnVars>>

\* the thresholds are set before the first evaluation
setDrawThreshold(moveNumber, moveCount, score) ==
    /\ plyCount = 0
    /\ m_drawMoveNum' = moveNumber
    /\ m_drawMoveCount' = moveCount
    /\ m_drawScore' = score
    /\ m_drawScoreCount' = 0
    /\ UNCHANGED <<m_resignMoveCount, m_resignScore, m_resignScoreCount, m_tbEnabled,
                   adj_result, plyCount, evalRun, evalRunSinceReset, lastEmpty>>
    /\ UNCHANGED <<gameVars, matchVars, configVars, pgnVars>>

setResignThreshold(moveCount, score) ==
    /\ plyCount = 0
    /\ m_resignMoveCount' = moveCount
    /\ m_resignScore' = score
    /\ m_resignScoreCount' = [s \in Sides |-> 0]
    /\ UNCHANGED <<m_drawMoveNum, m_drawMoveCount, m_drawScore, m_drawScoreCount,
                   m_tbEnabled, adj_result, plyCount, evalRun, evalRunSinceReset, lastEmpty>>
    /\ UNCHANGED <<gameVars, matchVars, configVars, pgnVars>>

setTablebaseAdjudication(enable) ==
    /\ plyCount = 0
    /\ m_tbEnabled' = enable
    /\ UNCHANGED <<m_drawMoveNum, m_drawMoveCount, m_drawScore, m_drawScoreCount,
                   m_resignMoveCount, m_resignScore, m_resignScoreCount,
                   adj_result, plyCount, evalRun, evalRunSinceReset, lastEmpty>>
    /\ UNCHANGED <<gameVars, matchVars, configVars, pgnVars>>

resetDrawMoveCount ==
    /\ plyCount > 0
    /\ m_drawScoreCount' = 0
    /\ evalRunSinceReset' = 0
    /\ UNCHANGED <<m_drawMoveNum, m_drawMoveCount, m_drawScore, m_resignMoveCount,
                   m_resignScore, m_resignScoreCount, m_tbEnabled, adj_result,
                   plyCount, evalRun, lastEmpty>>
    /\ UNCHANGED <<gameVars, matchVars, configVars, pgnVars>>

\* ------------------------------------------------------------------ PgnGame
MaxPgnMoves == 2
LineLimit == 80
Absent == "<absent>"
Roster == <<"Event", "Site", "Date", "Round", "White", "Black", "Result">>
\* the other tags of the model, in the key order of the tag map
OtherTags ==
    <<"ECO", "FEN", "Opening", "PlyCount", "SetUp", "Termination", "Variant", "Variation">>
SeqSet(seq) == {seq[i] : i \in 1..Len(seq)}
TagNames == SeqSet(Roster) \cup SeqSet(OtherTags)
NoTags == [t \in TagNames |-> Absent]
\* m_tags.isEmpty(), m_tags.value(tag), m_tags.contains(tag)
tagsEmpty(tags) == \A t \in TagNames : tags[t] = Absent
value(tags, tag) == IF tags[tag] = Absent THEN "" ELSE tags[tag]
contains(tags, tag) == tags[tag] # Absent

\* comments of 40 and of 90 characters
Comment40 == "0123456789012345678901234567890123456789"
Comment90 == Comment40 \o Comment40 \o "0123456789"
\* MoveData: the move's string and comment (Zz9 is no move on any board)
NullMoveString == "Zz9"
PgnMoveData ==
    {[moveString |-> "e4", comment |-> ""],
     [moveString |-> "Nf3", comment |-> Comment40],
     [moveString |-> NullMoveString, comment |-> Comment90]}
ResultStrings == {"1-0", "0-1", "1/2-1/2", "*"}

\* EcoNode: the opening tree root -e4-> e4 -Nf3-> leaf, 0 off the tree
EcoRoot == "root"
EcoNull == "0"
EcoChild(node, moveString) ==
    IF node = EcoRoot /\ moveString = "e4" THEN "e4"
    ELSE IF node = "e4" /\ moveString = "Nf3" THEN "leaf"
    ELSE EcoNull
EcoIsLeaf(node) == node = "leaf"

\* PgnGame::PgnGame()
PgnInit ==
    /\ m_tags = NoTags
    /\ pgn_moves = <<>>
    /\ m_startingSide = "White"
    /\ m_eco = EcoRoot
    /\ written = FALSE
    /\ readOk = "none"

\* the fields of the game
PgnGame ==
    [m_tags |-> m_tags, m_moves |-> pgn_moves, m_startingSide |-> m_startingSide,
     m_eco |-> m_eco]

\* PgnGame::variant(), PgnGame::isStandard()
variant(g) == IF contains(g.m_tags, "Variant") THEN value(g.m_tags, "Variant") ELSE "standard"
isStandard(g) == variant(g) = "standard" /\ ~contains(g.m_tags, "FEN")

\* PgnGame::setTag(): an empty value removes the tag
setTag(tags, tag, val) == [tags EXCEPT ![tag] = IF val = "" THEN Absent ELSE val]

\* PgnGame::clear()
clear(g) == [m_tags |-> NoTags, m_moves |-> <<>>, m_startingSide |-> "NoSide", m_eco |-> EcoRoot]

\* PgnGame::addMove()
addMove(g, data) ==
    LET eco == IF g.m_eco # EcoNull /\ isStandard(g)
               THEN EcoChild(g.m_eco, data.moveString) ELSE EcoNull
    IN [g EXCEPT !.m_moves = Append(@, data),
                 !.m_eco = eco,
                 !.m_tags = IF EcoIsLeaf(eco)
                            THEN setTag(setTag(setTag(@, "ECO", "C40"), "Opening", "King's Knight"),
                                        "Variation", "")
                            ELSE @]

\* writeTag(): one line of the tag section
writeTag_NoUnknown(tag, val) == [name |-> tag, value |-> val]
writeTag(tag, val) == [name |-> tag, value |-> IF val # "" THEN val ELSE "?"]

\* write(): the tag section
RECURSIVE OtherTagLines(_, _)
OtherTagLines(tags, names) ==
    IF names = <<>> THEN <<>>
    ELSE (IF value(tags, Head(names)) # ""
          THEN <<writeTag(Head(names), value(tags, Head(names)))>> ELSE <<>>)
         \o OtherTagLines(tags, Tail(names))
TagSection(tags, mode) ==
    [i \in 1..Len(Roster) |-> writeTag(Roster[i], value(tags, Roster[i]))]
    \o (IF mode = "Verbose" THEN OtherTagLines(tags, OtherTags)
        ELSE IF contains(tags, "FEN")
        THEN <<writeTag("FEN", value(tags, "FEN")), writeTag("SetUp", value(tags, "SetUp"))>>
        ELSE <<>>)

\* write(): one token of the movetext and its text
MoveToken(num, data, mode) ==
    [num |-> num, move |-> data.moveString,
     comment |-> IF mode = "Verbose" THEN data.comment ELSE "", result |-> ""]
ResultToken(str) == [num |-> "", move |-> "", comment |-> "", result |-> str]
TokenText(token) ==
    token.num \o token.move
    \o (IF token.comment # "" THEN " {" \o token.comment \o "}" ELSE "")
    \o token.result
\* out << "\n" << str starts a line, out << " " << str extends the last one
NewLine_Replace(lines, token) == <<<<[sep |-> "", token |-> token]>>>>
NewLine(lines, token) == Append(lines, <<[sep |-> "", token |-> token]>>)
SameLine(lines, token) ==
    IF lines = <<>> THEN <<<<[sep |-> " ", token |-> token]>>>>
    ELSE [lines EXCEPT ![Len(lines)] = Append(@, [sep |-> " ", token |-> token])]

\* side = !side on the integer of a Chess::Side
NotSide(side) == IF side = "White" THEN "Black" ELSE "White"

\* write(): the loop over the moves, then the result
RECURSIVE MoveText(_, _, _, _, _, _, _)
MoveText(g, mode, i, lines, lineLength, movenum, side) ==
    IF i > Len(g.m_moves)
    THEN LET str == value(g.m_tags, "Result")
         IN IF lineLength + Len(str) >= LineLimit
            THEN NewLine(lines, ResultToken(str))
            ELSE SameLine(lines, ResultToken(str))
    ELSE LET numbered == side = "White" \/ i = 1
             num == IF numbered THEN movenum + 1 ELSE movenum
             token == MoveToken(IF numbered THEN ToString(num) \o ". " ELSE "",
                                g.m_moves[i], mode)
             size == Len(TokenText(token))
         IN IF lineLength = 0 \/ lineLength + size >= LineLimit
            THEN MoveText(g, mode, i + 1, NewLine(lines, token), size, num, NotSide(side))
            ELSE MoveText(g, mode, i + 1, SameLine(lines, token), lineLength + size + 1,
                          num, NotSide(side))

\* PgnGame::write(): the text of the game, nothing for a game without tags
NoText == [tags |-> <<>>, lines |-> <<>>]
write(g, mode) ==
    IF tagsEmpty(g.m_tags) THEN NoText
    ELSE [tags |-> TagSection(g.m_tags, mode),
          lines |-> MoveText(g, mode, 1, <<>>, 0, 0, g.m_startingSide)]

\* PgnStream: the tokens of a text in reading order (move numbers are skipped)
ItemTokens(item) ==
    (IF item.token.move # "" THEN <<[type |-> "PgnMove", str |-> item.token.move]>> ELSE <<>>)
    \o (IF item.token.comment # ""
        THEN <<[type |-> "PgnComment", str |-> item.token.comment]>> ELSE <<>>)
    \o (IF item.token.result # ""
        THEN <<[type |-> "PgnResult", str |-> item.token.result]>> ELSE <<>>)
RECURSIVE LineTokens(_)
LineTokens(line) ==
    IF line = <<>> THEN <<>> ELSE ItemTokens(Head(line)) \o LineTokens(Tail(line))
RECURSIVE MoveTextTokens(_)
MoveTextTokens(lines) ==
    IF lines = <<>> THEN <<>> ELSE LineTokens(Head(lines)) \o MoveTextTokens(Tail(lines))
Tokens(text) ==
    [i \in 1..Len(text.tags) |->
        [type |-> "PgnTag", name |-> text.tags[i].name, str |-> text.tags[i].value]]
    \o MoveTextTokens(text.lines)

\* the board of the stream: the variants it knows, the FEN strings it accepts,
\* the side a FEN gives the move to, and the move strings it takes as moves
KnownVariants == {"standard", "fischerandom"}
isRandomVariant(name) == name = "fischerandom"
ValidFens == {"custom"}
startingSide(fen) == IF fen = "custom" THEN "Black" ELSE "White"
LegalMoveStrings == {"e4", "Nf3"}

\* PgnGame::parseMove(): the game after the token and whether it was taken
parseMove(g, str) ==
    LET tmp == value(g.m_tags, "Variant")
        fen == value(g.m_tags, "FEN")
        boardVariant == IF tmp # "" THEN tmp ELSE "standard"
        first == g.m_moves = <<>>
        g1 == IF first /\ tmp \in KnownVariants \cup {""}
                       /\ (fen = "" => ~isRandomVariant(boardVariant))
                       /\ (fen # "" => fen \in ValidFens)
              THEN [g EXCEPT !.m_startingSide = startingSide(fen)]
              ELSE g
    IN IF tagsEmpty(g.m_tags) THEN [ok |-> FALSE, g |-> g]
       ELSE IF first /\ tmp # "" /\ tmp \notin KnownVariants THEN [ok |-> FALSE, g |-> g]
       ELSE IF first /\ fen = "" /\ isRandomVariant(boardVariant) THEN [ok |-> FALSE, g |-> g]
       ELSE IF first /\ fen # "" /\ fen \notin ValidFens THEN [ok |-> FALSE, g |-> g]
       ELSE IF str \notin LegalMoveStrings THEN [ok |-> FALSE, g |-> g1]
       ELSE [ok |-> TRUE, g |-> addMove(g1, [moveString |-> str, comment |-> ""])]

\* PgnGame::read(): the loop over the tokens; parsed tells whether every
\* parseMove() so far returned true
RECURSIVE ReadTokens(_, _, _, _)
ReadTokens(g, tokens, maxMoves, parsed) ==
    IF tokens = <<>> THEN [g |-> g, parsed |-> parsed]
    ELSE LET token == Head(tokens)
         IN CASE token.type = "PgnTag" ->
                    ReadTokens([g EXCEPT !.m_tags[token.name] = token.str],
                               Tail(tokens), maxMoves, parsed)
              [] token.type = "PgnMove" ->
                    LET r == parseMove(g, token.str)
                    IN IF ~r.ok \/ Len(r.g.m_moves) >= maxMoves
                       THEN [g |-> r.g, parsed |-> parsed /\ r.ok]
                       ELSE ReadTokens(r.g, Tail(tokens), maxMoves, parsed)
              [] token.type = "PgnComment" ->
                    ReadTokens(IF g.m_moves # <<>>
                               THEN [g EXCEPT !.m_moves[Len(g.m_moves)].comment = @ \o token.str]
                               ELSE g,
                               Tail(tokens), maxMoves, parsed)
              [] token.type = "PgnResult" ->
                    [g |-> [g EXCEPT !.m_tags["Result"] = token.str], parsed |-> parsed]

\* PgnGame::read(): the game read from the text, what read() returns, and
\* whether every move token was parsed
read(text, maxMoves) ==
    LET g0 == clear(PgnGame)
        r == ReadTokens(g0, Tokens(text), maxMoves, TRUE)
    IN IF text = NoText THEN [g |-> g0, ok |-> FALSE, parsed |-> TRUE]
       ELSE IF tagsEmpty(r.g.m_tags) THEN [g |-> r.g, ok |-> FALSE, parsed |-> r.parsed]
       ELSE [g |-> [r.g EXCEPT !.m_tags["PlyCount"] = ToString(Len(r.g.m_moves))],
             ok |-> TRUE, parsed |-> r.parsed]

\* the characters of one line of the movetext
RECURSIVE LineLength(_)
LineLength(line) ==
    IF line = <<>> THEN 0
    ELSE Len(Head(line).sep) + Len(TokenText(Head(line).token)) + LineLength(Tail(line))

\* ------------------------------------------------------------------ actions
Running == ~crashed /\ ~finished

\* EngineMatch::start(), called by main and then by the settling timer
EngineMatch_start ==
    /\ ~crashed
    /\ startScheduled > 0
    /\ \E seed \in Seeds, side \in {"White", "NoSide"} :
         LET white == WhiteOf(m_currentGame)
             black == BlackOf(m_currentGame)
             g0 == NewGame(World, white, black, side)
             g1 == SeedGame(g0, seed)
             memo == m_repeatOpening /\ m_currentGame % 2 = 0
             cleared == match_fen # "" \/ m_openingMoves # <<>>
         IN /\ m_white' = white
            /\ m_black' = black
            /\ match_fen' = IF memo THEN g1.m_fen
                            ELSE IF cleared THEN "" ELSE match_fen
            /\ m_openingMoves' = IF memo THEN g1.m_moves
                                 ELSE IF cleared THEN <<>> ELSE m_openingMoves
            /\ m_pgnGamesRead' = PgnGamesReadAfter(seed)
            /\ seedFen' = StartingFen(g1.m_fen)
            /\ seedMoves' = g1.m_moves
            /\ Commit(IF g1.crashed THEN g1 ELSE ChessGame_start(g1))
    /\ startScheduled' = startScheduled - 1
    /\ gamesStarted' = gamesStarted + 1
    /\ UNCHANGED <<m_currentGame, m_drawCount, wins, pgnRecords, finished, unscored,
                   aborted>>
    /\ UNCHANGED <<configVars, adjVars, pgnVars>>

\* the score kept by onGameEnded(): the draw count and the engines' wins
\* a draw count that grows with every game
DrawCountAfter_Always(result) == m_drawCount + 1
DrawCountAfter(result) ==
    IF isDraw(result) THEN m_drawCount + 1 ELSE m_drawCount
WinsAfter(result) ==
    IF isDraw(result) THEN wins
    ELSE IF result.winner = "White" THEN [wins EXCEPT ![m_white] = @ + 1]
    ELSE IF result.winner = "Black" THEN [wins EXCEPT ![m_black] = @ + 1]
    ELSE wins

\* whether onGameEnded() schedules another game; played counts this game
\* a schedule that plays on after a disconnection
AnotherGame_AfterDisconnection(played, result) ==
    /\ played < m_gameCount
    /\ result.type # "ResultError"

AnotherGame(played, result) ==
    /\ played < m_gameCount
    /\ result.type # "ResultError"
    /\ result.type # "Disconnection"

\* the queued gameEnded() reaches EngineMatch::onGameEnded()
EngineMatch_onGameEnded ==
    /\ Running
    /\ gameAlive
    /\ gameEndedQueued > 0
    /\ LET result == m_result
           again == AnotherGame(m_currentGame + 1, result)
       IN /\ m_drawCount' = DrawCountAfter(result)
          /\ wins' = WinsAfter(result)
          /\ pgnRecords' = IF m_pgnOutput THEN pgnRecords + 1 ELSE pgnRecords
          /\ m_currentGame' = m_currentGame + 1
          /\ startScheduled' = IF again THEN startScheduled + 1 ELSE startScheduled
          /\ finished' = ~again
          /\ unscored' = IF isDraw(result) \/ result.winner \in Sides
                         THEN unscored ELSE unscored + 1
          /\ aborted' = (result.type \in {"ResultError", "Disconnection"})
    /\ Commit([DeleteGame(World) EXCEPT !.gameEndedQueued = @ - 1])
    /\ UNCHANGED <<m_white, m_black, match_fen, m_openingMoves, m_pgnGamesRead,
                   gamesStarted, seedFen, seedMoves>>
    /\ UNCHANGED <<configVars, adjVars, pgnVars>>

\* a player announces a move: moveMade(move) reaches onMoveMade()
PlayerMove(e, move) ==
    /\ Running
    /\ gameAlive
    /\ LET w == onMoveMade(World, e, move)
           skipped == /\ w.m_moves # m_moves
                      /\ ~m_gameInProgress \/ ~isLegalMove(m_board, move)
       IN /\ Len(w.m_moves) <= MaxPlies
          /\ skipped => unchecked < MaxUnchecked
          /\ Commit([w EXCEPT !.unchecked = IF skipped THEN @ + 1 ELSE @])
    /\ UNCHANGED <<matchVars, configVars, adjVars, pgnVars>>

\* a player forfeits: forfeit(result) reaches onForfeit()
PlayerForfeit(e, result) ==
    /\ Running
    /\ gameAlive
    /\ Commit(onForfeit(World, e, result))
    /\ UNCHANGED <<matchVars, configVars, adjVars, pgnVars>>

\* a player becomes ready and emits ready(); a connected syncPlayers() runs
PlayerReady(e) ==
    /\ Running
    /\ ~ready[e]
    /\ LET w == [World EXCEPT !.ready[e] = TRUE]
       IN Commit(IF gameAlive /\ readyConn[e] > 0
                 THEN syncPlayers(w, e, FALSE)
                 ELSE w)
    /\ UNCHANGED <<matchVars, configVars, adjVars, pgnVars>>

\* a player stops being ready (it waits for its engine)
PlayerBusy(e) ==
    /\ Running
    /\ ready[e]
    /\ Commit([World EXCEPT !.ready[e] = FALSE])
    /\ UNCHANGED <<matchVars, configVars, adjVars, pgnVars>>

Init ==
    /\ assertsEnabled \in BOOLEAN
    /\ supportsVariant \in BOOLEAN
    /\ crashed = FALSE
    /\ ready \in [Engines -> BOOLEAN]
    /\ gameAlive = FALSE
    /\ m_player = [s \in Sides |-> NoPlayer]
    /\ m_gameInProgress = FALSE
    /\ m_result = NoneResult
    /\ m_moves = <<>>
    /\ m_comments = <<>>
    /\ m_fen = ""
    /\ m_board = NewBoard("NoSide")
    /\ readyConn = [e \in Engines |-> 0]
    /\ startConn = 0
    /\ endConn = 0
    /\ gameEndedQueued = 0
    /\ goPending = [e \in Engines |-> FALSE]
    /\ known = [e \in Engines |-> 0]
    /\ endCalls = [e \in Engines |-> <<>>]
    /\ goCalls = [e \in Engines |-> 0]
    /\ span = "none"
    /\ spanWait = 0
    /\ spanEmits = 0
    /\ unchecked = 0
    /\ m_gameCount \in 0..MaxGames
    /\ m_currentGame = 0
    /\ m_drawCount = 0
    /\ wins = [e \in Engines |-> 0]
    /\ m_white = NoPlayer
    /\ m_black = NoPlayer
    /\ match_fen = ""
    /\ m_openingMoves = <<>>
    /\ m_repeatOpening \in BOOLEAN
    /\ m_book \in BOOLEAN
    /\ m_bookDepth \in 1..MaxBookDepth
    /\ pgnInputOpen \in BOOLEAN
    /\ m_pgnGamesRead = 0
    /\ m_pgnOutput \in BOOLEAN
    /\ pgnRecords = 0
    /\ startScheduled = 1
    /\ finished = FALSE
    /\ gamesStarted = 0
    /\ unscored = 0
    /\ aborted = FALSE
    /\ seedFen = "startpos"
    /\ seedMoves = <<>>
    /\ AdjInit
    /\ PgnInit

Next ==
    \/ EngineMatch_start
    \/ EngineMatch_onGameEnded
    \/ \E e \in Engines, move \in PlayedMoves : PlayerMove(e, move)
    \/ \E e \in Engines, result \in ForfeitResults : PlayerForfeit(e, result)
    \/ \E e \in Engines : PlayerReady(e)
    \/ \E e \in Engines : PlayerBusy(e)

\* one game, seeded by nothing or by the opening book, in both builds
InitGame ==
    /\ Init
    /\ m_gameCount = 1
    /\ ~m_repeatOpening
    /\ ~pgnInputOpen
    /\ m_pgnOutput
    /\ m_book \/ m_bookDepth = 1

SpecGame == InitGame /\ [][Next]_vars

\* one unseeded game, in both builds, with the scheduling of the event loop:
\* a due start() and a queued gameEnded() are handled; the players are the
\* environment and become ready or busy as they please
InitLive ==
    /\ InitGame
    /\ ~m_book

SpecLive ==
    /\ InitLive
    /\ [][Next]_vars
    /\ WF_vars(EngineMatch_start)
    /\ WF_vars(EngineMatch_onGameEnded)

\* a match of up to MaxGames unseeded games written to a PGN output, in both
\* builds
InitMatch ==
    /\ Init
    /\ ~m_repeatOpening
    /\ ~pgnInputOpen
    /\ ~m_book
    /\ m_bookDepth = 1
    /\ m_pgnOutput

SpecMatch == InitMatch /\ [][Next]_vars

\* a release-build match of MaxGames games that repeats openings, seeded by
\* nothing, by the opening book or by the PGN input
InitRepeat ==
    /\ Init
    /\ m_repeatOpening
    /\ m_gameCount = MaxGames
    /\ ~(m_book /\ pgnInputOpen)
    /\ m_bookDepth = MaxBookDepth
    /\ m_pgnOutput
    /\ supportsVariant
    /\ ~assertsEnabled
    /\ \A e \in Engines : ready[e]

SpecRepeat == InitRepeat /\ [][Next]_vars

\* one adjudicator, configured and then fed the evaluations of up to MaxEvals
\* moves
\* ---- PgnGame: the operations on one game
PgnCommit(g) ==
    /\ m_tags' = g.m_tags
    /\ pgn_moves' = g.m_moves
    /\ m_startingSide' = g.m_startingSide
    /\ m_eco' = g.m_eco
    /\ written' = FALSE
    /\ readOk' = "none"
    /\ UNCHANGED <<gameVars, matchVars, configVars, adjVars>>

\* the values the setters are called with
EventNames == {""}
PgnResults == {[type |-> "Timeout", winner |-> "Black"]}
VariantNames == {"standard", "fischerandom", "shogi"}
\* a starting side and the FEN string of the position: none, one the board
\* accepts, one it does not
StartPositions ==
    {[side |-> "White", fen |-> ""],
     [side |-> "Black", fen |-> "custom"],
     [side |-> "White", fen |-> "8/8"]}
PgnModes == {"Verbose", "Minimal"}

\* Chess::Result::toShortString()
toShortString(result) ==
    IF result.type \in {"NoResult", "ResultError"} THEN "*"
    ELSE IF result.winner = "White" THEN "1-0"
    ELSE IF result.winner = "Black" THEN "0-1"
    ELSE "1/2-1/2"

setEvent(event) ==
    LET g == [PgnGame EXCEPT !.m_tags["Event"] = event]
    IN PgnCommit(g)

setResult(result) ==
    LET g == [PgnGame EXCEPT
                !.m_tags["Result"] = toShortString(result),
                !.m_tags["Termination"] =
                    CASE result.type = "Adjudication" -> "adjudication"
                      [] result.type = "Timeout" -> "time forfeit"
                      [] result.type = "Disconnection" -> "abandoned"
                      [] result.type = "NoResult" -> "unterminated"
                      [] OTHER -> Absent]
    IN PgnCommit(g)

setVariant(name) ==
    LET g == [PgnGame EXCEPT !.m_tags["Variant"] = IF name = "standard" THEN Absent ELSE name]
    IN PgnCommit(g)

setStartingFenString(side, fen) ==
    LET g == [PgnGame EXCEPT
                !.m_startingSide = side,
                !.m_tags["FEN"] = IF fen = "" THEN Absent ELSE fen,
                !.m_tags["SetUp"] = IF fen = "" THEN Absent ELSE "1"]
    IN PgnCommit(g)

AddMove(data) ==
    /\ Len(pgn_moves) < MaxPgnMoves
    /\ PgnCommit(addMove(PgnGame, data))

Clear ==
    LET g == clear(PgnGame)
    IN PgnCommit(g)

\* the game is written to an empty stream and read back from it
Read(mode, maxMoves) ==
    LET r == read(write(PgnGame, mode), maxMoves)
    IN /\ m_tags' = r.g.m_tags
       /\ pgn_moves' = r.g.m_moves
       /\ m_startingSide' = r.g.m_startingSide
       /\ m_eco' = r.g.m_eco
       /\ written' = FALSE
       /\ readOk' = IF r.ok THEN "true" ELSE "false"
       /\ UNCHANGED <<gameVars, matchVars, configVars, adjVars>>

Write(mode) ==
    /\ written' = TRUE
    /\ UNCHANGED <<m_tags, pgn_moves, m_startingSide, m_eco, readOk>>
    /\ UNCHANGED <<gameVars, matchVars, configVars, adjVars>>

InitPgn ==
    /\ Init
    /\ m_gameCount = 1
    /\ assertsEnabled /\ supportsVariant /\ m_pgnOutput
    /\ ~m_repeatOpening /\ ~m_book /\ ~pgnInputOpen
    /\ m_bookDepth = 1
    /\ \A e \in Engines : ready[e]

NextPgn ==
    \/ \E event \in EventNames : setEvent(event)
    \/ \E result \in PgnResults : setResult(result)
    \/ \E name \in VariantNames : setVariant(name)
    \/ \E start \in StartPositions : setStartingFenString(start.side, start.fen)
    \/ \E data \in PgnMoveData : AddMove(data)
    \/ Clear
    \/ \E mode \in PgnModes, maxMoves \in 0..MaxPgnMoves : Read(mode, maxMoves)
    \/ \E mode \in PgnModes : Write(mode)

SpecPgn == InitPgn /\ [][NextPgn]_vars

InitAdj ==
    /\ Init
    /\ m_gameCount = 1
    /\ assertsEnabled /\ supportsVariant /\ m_pgnOutput
    /\ ~m_repeatOpening /\ ~m_book /\ ~pgnInputOpen
    /\ m_bookDepth = 1
    /\ \A e \in Engines : ready[e]

NextAdj ==
    \/ \E moveNumber \in MoveNumbers, moveCount \in MoveCounts, score \in DrawScores :
          setDrawThreshold(moveNumber, moveCount, score)
    \/ \E moveCount \in MoveCounts, score \in ResignScores :
          setResignThreshold(moveCount, score)
    \/ \E enable \in BOOLEAN : setTablebaseAdjudication(enable)
    \/ \E sideToMove \in Sides, tablebaseResult \in TablebaseResults, eval \in Evals :
          AddEval(AdjBoard(sideToMove, tablebaseResult), eval)
    \/ resetDrawMoveCount

SpecAdj == InitAdj /\ [][NextAdj]_vars

\* ------------------------------------------------------------ properties
OtherEngine(e) == 1 - e
Delivered == \A e \in Engines : endCalls[e] # <<>>
\* the game has ended: a terminal result is set and endGame() has run
Ended == gameAlive /\ ~m_gameInProgress /\ endConn > 0 /\ ~isNone(m_result)
\* what a discarded event leaves alone: the game's record and the players
Untouched ==
    UNCHANGED <<m_result, m_moves, m_comments, m_board, m_gameInProgress,
                goCalls, known, endCalls, gameEndedQueued, crashed>>

\* C1: once the game has ended, a moveMade() from either player and a
\* forfeit() change neither result, moves, comments nor board, and cause no
\* go(), makeMove() or endGame() call.
C1_EndedGameIgnoresEvents ==
    [][\A e \in Engines :
          /\ \A move \in PlayedMoves : (Ended /\ PlayerMove(e, move)) => Untouched
          /\ \A result \in ForfeitResults :
                (Ended /\ PlayerForfeit(e, result)) => Untouched]_vars

\* C2: whenever gameEnded() is emitted the game has as many comments as moves.
C2_MovesMatchComments ==
    (gameAlive /\ gameEndedQueued > 0) => Len(m_moves) = Len(m_comments)

\* C3: in a waiting span playersReady() is emitted at most once, and only with
\* both players ready; a ready() of one player while the other is not ready
\* emits nothing.
EmittedInStep ==
    /\ gameAlive'
    /\ spanEmits' >= 1
    /\ ~gameAlive \/ spanEmits' # spanEmits \/ span' # span
C3_ReadySyncOnce ==
    [][/\ gameAlive' => spanEmits' <= 1
       /\ EmittedInStep =>
             ready'[m_player'["White"]] /\ ready'[m_player'["Black"]]
       /\ \A e \in Engines :
             (gameAlive /\ ~ready[OtherEngine(e)] /\ PlayerReady(e)) =>
                /\ spanEmits' = spanEmits
                /\ gameEndedQueued' = gameEndedQueued
                /\ m_gameInProgress' = m_gameInProgress]_vars
\* an end-of-game span that found both players busy has taken the ready() of
\* one of them and waits for the other
C3_Witness ==
    /\ gameAlive /\ span = "end" /\ spanWait = 2 /\ spanEmits = 0
    /\ \E e \in Engines :
          /\ ready[e] /\ readyConn[e] = 0
          /\ ~ready[OtherEngine(e)] /\ readyConn[OtherEngine(e)] = 1

\* C4: gameEnded() is emitted only after endGame(result) reached both players
\* and both were then ready; the match starts a game only after the game
\* before it has been handled.
C4_EndAfterDeliveryAndReady ==
    [][/\ (gameAlive' /\ gameEndedQueued' > 0) =>
             \A e \in Engines : endCalls'[e] # <<>>
       /\ (gameAlive' /\ gameEndedQueued' > gameEndedQueued) =>
             /\ ready'[m_player'["White"]] /\ ready'[m_player'["Black"]]
             /\ span' = "end"
       /\ gamesStarted' = m_currentGame' + (IF gameAlive' THEN 1 ELSE 0)
       /\ startScheduled' > 0 => ~gameAlive']_vars
\* the second game of a match has told both players the result and announced
\* its end
C4_Witness ==
    /\ gameAlive /\ m_currentGame = 1 /\ gameEndedQueued = 1 /\ Delivered
    /\ \A e \in Engines : ready[e]

\* C5: in a game in progress go() is outstanding for at most one player, the
\* board's side to move, and only once every move of the list has been applied
\* to the board and made known to both players.
C5_SerialMoves ==
    m_gameInProgress =>
       \A e \in Engines :
          goPending[e] =>
             /\ e = playerToMove(World)
             /\ ~goPending[OtherEngine(e)]
             /\ m_board.ply = Len(m_moves)
             /\ \A p \in Engines : known[p] = Len(m_moves)
C5_Witness ==
    /\ m_gameInProgress /\ Len(m_moves) = 1 /\ unchecked = 0
    /\ goPending[m_player["Black"]]

\* C6: an illegal move of the player to move, in a game in progress, is not
\* recorded, relayed or applied; the result becomes IllegalMove with the
\* opponent as winner and endGame() reaches both players.
C6_IllegalMoveForfeits ==
    [][\A e \in Engines, move \in PlayedMoves :
          (/\ m_gameInProgress
           /\ e = playerToMove(World)
           /\ ~isLegalMove(m_board, move)
           /\ PlayerMove(e, move)) =>
             /\ UNCHANGED <<m_moves, m_comments, m_board, known, crashed>>
             /\ m_result' = [type |-> "IllegalMove",
                             winner |-> Opposite(m_board.side)]
             /\ ~m_gameInProgress'
             /\ \A p \in Engines : endCalls'[p] = <<m_result'>>]_vars

\* C7: in a game in progress a moveMade() of the player that is not to move
\* changes nothing and ends nothing.
C7_WrongSideIgnored ==
    [][\A e \in Engines, move \in PlayedMoves :
          (/\ m_gameInProgress
           /\ e # playerToMove(World)
           /\ PlayerMove(e, move)) => Untouched]_vars

\* C8: game g has engines[g mod 2] as White and the other engine as Black, from
\* its creation until its result has been aggregated.
C8_ColorAlternation ==
    gameAlive =>
       /\ m_player["White"] = m_currentGame % 2
       /\ m_player["Black"] = 1 - (m_currentGame % 2)
       /\ m_white = m_player["White"]
       /\ m_black = m_player["Black"]
C8_Witness ==
    gameAlive /\ m_currentGame = 1 /\ gameEndedQueued = 1 /\ m_player["White"] = 1

Max1(n) == IF n < 1 THEN 1 ELSE n
Score == wins[0] + wins[1] + m_drawCount
Completed == finished /\ ~aborted /\ m_gameCount >= 1

\* C9 as claimed: the score never exceeds the games handled, which never
\* exceed max(1, targetGames); a match of N games that completes without an
\* aborting result has a score of N.
C9_ScoreClaimed ==
    /\ m_currentGame > 0 =>
          Score <= m_currentGame /\ m_currentGame <= Max1(m_gameCount)
    /\ Completed => Score = m_gameCount

\* C9 as amended: the same bounds; a completed match of N games has a score
\* of N less the games whose result was neither a draw nor a win.
C9_ScoreTheorem ==
    /\ m_currentGame > 0 =>
          Score <= m_currentGame /\ m_currentGame <= Max1(m_gameCount)
    /\ Score + unscored = m_currentGame
    /\ Completed => Score = m_gameCount - unscored
C9_Witness ==
    Completed /\ m_gameCount = 2 /\ unscored = 1 /\ Score = 1

HandledInStep == gameAlive /\ m_currentGame' = m_currentGame + 1
Aborting(result) == result.type \in {"ResultError", "Disconnection"}

ErrorKinds == {"Disconnection", "StalledConnection", "IllegalMove", "ResultError"}
C11_ErrorEndsMatch ==
    [][(HandledInStep /\ m_result.type \in ErrorKinds) =>
          (finished' /\ startScheduled' = 0)]_vars

\* C12: with repeatOpening, game 2k+1 starts from the starting FEN and the
\* forced moves of game 2k with the colors swapped, and leaves the repeat memo
\* cleared.
StartsOddGame ==
    m_repeatOpening /\ gamesStarted' = gamesStarted + 1 /\ m_currentGame % 2 = 1
C12_RepeatOpening ==
    [][StartsOddGame =>
          /\ seedFen' = seedFen
          /\ seedMoves' = seedMoves
          /\ m_white' = m_black /\ m_black' = m_white
          /\ match_fen' = "" /\ m_openingMoves' = <<>>]_vars

\* the call of addEval() in the step
Mover(board) == Opposite(board.sideToMove)
DrawRuleOn == m_drawMoveNum > 0 /\ ~m_tbEnabled

ResignCountDue(board, eval) ==
    IF eval.depth > 0 /\ eval.score <= m_resignScore
    THEN m_resignScoreCount[Mover(board)] + 1
    ELSE 0
\* the call returns before the resign rule: the tablebase or the draw rule
\* has decided the result
TablebaseDecides(board) == m_tbEnabled /\ ~isNone(board.tablebaseResult)
DrawDecides(board, eval) ==
    /\ m_drawMoveNum > 0 /\ eval.depth > 0
    /\ board.plyCount \div 2 >= m_drawMoveNum
    /\ (IF qAbs(eval.score) <= m_drawScore THEN m_drawScoreCount + 1 ELSE 0)
          >= 2 * m_drawMoveCount

\* C14 as claimed: with the resign rule on, an evaluation leaves the other
\* side's counter alone, increments the mover's counter if non-empty with
\* score <= resignScore and resets it otherwise, and declares the win of the
\* mover's opponent exactly when the mover's counter reaches resignMoveCount.
C14_ResignClaimed ==
    [][\A board \in AdjBoards, eval \in Evals :
          (/\ m_resignMoveCount > 0
           /\ adj_result # WinRule(board.sideToMove)
           /\ AddEval(board, eval)) =>
             /\ m_resignScoreCount'[board.sideToMove] = m_resignScoreCount[board.sideToMove]
             /\ m_resignScoreCount'[Mover(board)] = ResignCountDue(board, eval)
             /\ adj_result' = WinRule(board.sideToMove) <=>
                   ResignCountDue(board, eval) >= m_resignMoveCount]_vars

\* C14 as amended: the same for every call the tablebase or the draw rule
\* does not decide first; a call they decide leaves both counters alone and
\* declares no win.
C14_ResignTheorem ==
    [][\A board \in AdjBoards, eval \in Evals :
          (/\ m_resignMoveCount > 0
           /\ adj_result # WinRule(board.sideToMove)
           /\ AddEval(board, eval)) =>
             /\ m_resignScoreCount'[board.sideToMove] = m_resignScoreCount[board.sideToMove]
             /\ IF TablebaseDecides(board) \/ DrawDecides(board, eval)
                THEN /\ m_resignScoreCount'[Mover(board)] = m_resignScoreCount[Mover(board)]
                     /\ adj_result' # WinRule(board.sideToMove)
                ELSE /\ m_resignScoreCount'[Mover(board)] = ResignCountDue(board, eval)
                     /\ adj_result' = WinRule(board.sideToMove) <=>
                           ResignCountDue(board, eval) >= m_resignMoveCount]_vars
\* Black wins by the resign rule after two bad evaluations of White, with
\* Black's own counter at one
C14_Witness ==
    /\ adj_result = WinRule("Black") /\ m_resignMoveCount = 2
    /\ m_resignScoreCount["White"] = 2 /\ m_resignScoreCount["Black"] = 1
    /\ ~lastEmpty

\* C15 as claimed: in every configuration an empty evaluation resets the draw
\* counter and the mover's resign counter and sets no terminal result.
C15_EmptyEvalClaimed ==
    [][\A board \in AdjBoards, eval \in Evals :
          (eval.depth <= 0 /\ AddEval(board, eval)) =>
             /\ m_drawScoreCount' = 0
             /\ m_resignScoreCount'[Mover(board)] = 0
             /\ adj_result' # adj_result => isNone(adj_result')]_vars

\* C15 as amended: the same unless tablebase adjudication is enabled and the
\* tablebase gives a terminal result.
C15_EmptyEvalTheorem ==
    [][\A board \in AdjBoards, eval \in Evals :
          (/\ eval.depth <= 0
           /\ ~TablebaseDecides(board)
           /\ AddEval(board, eval)) =>
             /\ m_drawScoreCount' = 0
             /\ m_resignScoreCount'[Mover(board)] = 0
             /\ adj_result' # adj_result => isNone(adj_result')]_vars
\* an empty evaluation with the tablebase enabled and silent has reset the
\* draw counter, while the other side's resign counter stands at one
C15_Witness ==
    /\ lastEmpty /\ m_tbEnabled /\ isNone(adj_result) /\ plyCount = 3
    /\ m_drawMoveNum > 0 /\ m_drawScoreCount = 0 /\ evalRun = 0
    /\ m_resignMoveCount = 2
    /\ \E side \in Sides : /\ m_resignScoreCount[side] = 0
                           /\ m_resignScoreCount[Opposite(side)] = 1

\* ---- PgnGame
\* the lines of the movetext of the game as it stands, written in a mode
MoveTextLines(mode) == write(PgnGame, mode).lines
\* the tags of the roster the game holds no value for
MissingValue(tag) == m_tags[tag] \in {Absent, ""}

\* C16: every line of the movetext, the line of the result included, is at
\* most 80 characters long in either mode, whatever the lengths of the move
\* strings and comments.
C16_LinesWithinLimit ==
    \A mode \in PgnModes :
        \A i \in 1..Len(MoveTextLines(mode)) :
            LineLength(MoveTextLines(mode)[i]) <= LineLimit

\* the first seven tag lines of a text are the roster in its order, "?"
\* standing for a value the game does not hold
RosterFirst(text) ==
    /\ Len(text.tags) >= Len(Roster)
    /\ \A i \in 1..Len(Roster) :
          /\ text.tags[i].name = Roster[i]
          /\ text.tags[i].value = IF MissingValue(Roster[i]) THEN "?" ELSE m_tags[Roster[i]]

\* C17 as stated: every write, in either mode and whatever the tag map (the
\* empty one included), emits the seven roster tags in order before anything
\* else.
C17_RosterClaimed ==
    \A mode \in PgnModes : RosterFirst(write(PgnGame, mode))

\* C17: a write of a game with a non-empty tag map, in either mode, emits the
\* seven roster tags in order before anything else, "?" for a missing or
\* empty value; a write of a game with an empty tag map emits nothing.
C17_RosterTheorem ==
    \A mode \in PgnModes :
        IF tagsEmpty(m_tags) THEN write(PgnGame, mode) = NoText
        ELSE RosterFirst(write(PgnGame, mode))

\* a written game with a roster tag that is absent, one that is empty and one
\* that has a value
C17_Witness ==
    /\ written
    /\ m_tags["Site"] = Absent
    /\ m_tags["Event"] = ""
    /\ m_tags["Result"] = "0-1"

\* reading the whole of a text: a limit no game reaches
AllMoves == MaxPgnMoves + 1
ReadBack(mode) == read(write(PgnGame, mode), AllMoves)
MoveStrings(moves) == [i \in 1..Len(moves) |-> moves[i].moveString]
\* the game read back has the roster values and the moves of the game written
SameGame(r) ==
    /\ r.ok
    /\ \A i \in 1..Len(Roster) : value(r.g.m_tags, Roster[i]) = value(m_tags, Roster[i])
    /\ MoveStrings(r.g.m_moves) = MoveStrings(pgn_moves)

C19_PlyCountOnWrite ==
    (written /\ contains(m_tags, "PlyCount"))
    => m_tags["PlyCount"] = ToString(Len(pgn_moves))

\* C20: when the reader does not accept a move token (a null or illegal move,
\* an unknown variant, an invalid FEN or none for a random variant), read()
\* returns false, even though tags and earlier moves were consumed.
C20_BadTokenFailsRead ==
    \A mode \in PgnModes, maxMoves \in 1..MaxPgnMoves :
        ~read(write(PgnGame, mode), maxMoves).parsed
        => ~read(write(PgnGame, mode), maxMoves).ok

\* C21: the forced opening prefix never has more than the configured number
\* of plies: read(stream, maxMoves) records at most maxMoves moves, for every
\* maxMoves >= 0 (the limit the match passes on as its book depth).
C21_PrefixWithinDepth ==
    \A mode \in PgnModes, maxMoves \in 0..MaxPgnMoves :
        Len(read(write(PgnGame, mode), maxMoves).g.m_moves) <= maxMoves

\* C22: ending is idempotent.  In every game and after every step, no player
\* has been given endGame(result) more than once, both players have been given
\* the same result, at most one gameEnded() is queued and then each player has
\* its result exactly once; and once the result is delivered, no later move or
\* forfeit of the same game changes what was delivered.
C22_EndingIdempotent ==
    [][/\ \A e \in Engines : Len(endCalls'[e]) <= 1
       /\ endCalls'[0] = endCalls'[1]
       /\ gameEndedQueued' <= 1
       /\ gameEndedQueued' > 0 => \A e \in Engines : Len(endCalls'[e]) = 1
       /\ (Delivered /\ gameAlive') => endCalls' = endCalls]_vars

\* an ended game whose board gave a result of its own after the delivery: the
\* second ending was dropped and the players keep the first result
C22_Witness ==
    /\ gameAlive
    /\ Delivered
    /\ ~m_gameInProgress
    /\ ~isNone(m_result)
    /\ m_result # endCalls[0][1]
    /\ \A e \in Engines : Len(endCalls[e]) = 1

\* C23: go() is only requested of a player while the game is in progress and
\* the board reports no result, after a move of the move loop as well as after
\* the forced opening moves played by start().
C23_GoOnlyInLivePosition ==
    [][(\E e \in Engines : goCalls'[e] > goCalls[e])
       => (m_gameInProgress' /\ isNone(m_board'.res))]_vars

\* C24: the adjudicator's result is stable.  Once the result is terminal,
\* every later addEval(), with any evaluation and with tablebase adjudication
\* on or off, leaves it terminal; and a call for which the tablebase gives a
\* terminal result leaves the draw and resign counters as they were.
C24_ResultStable ==
    [][\A board \in AdjBoards, eval \in Evals :
          AddEval(board, eval) =>
             /\ ~isNone(adj_result) => ~isNone(adj_result')
             /\ TablebaseDecides(board) =>
                   /\ m_drawScoreCount' = m_drawScoreCount
                   /\ m_resignScoreCount' = m_resignScoreCount]_vars

\* a waiting span is open: start() or endGame() called syncPlayers() and
\* playersReady() has not been emitted since
Waiting == gameAlive /\ ~crashed /\ span # "none" /\ spanEmits = 0
BothReady == \A e \in Engines : ready[e]

\* C25: in a waiting span opened by start() or by endGame(), once both
\* players are ready playersReady() is eventually emitted, in whatever order
\* the players became ready and even if one of them was not ready again in
\* between.
C25_ReadySyncLive == (Waiting /\ BothReady) ~> ~Waiting
====
